---- MODULE Spec2Model ----
(***************************************************************************)
(* Two-way secret synchronisation of scripts/sync-service:                 *)
(*   - the webhook receiver  (src/webhook-receiver.js)                     *)
(*   - the device sync daemon (src/device-sync.js)                         *)
(*   - the device registry file devices.json, also written by             *)
(*     add-device.sh                                                       *)
(* Every await of the JavaScript code is a point where another handler of  *)
(* the same process, or another process, may run; the model has one action *)
(* per stretch of code between two awaits.                                 *)
(***************************************************************************)
EXTENDS Integers, Sequences, FiniteSets, TLC

VARIABLES
  webhookSecret,  \* receiver: WEBHOOK_SECRET, "" when not configured
  reqs,           \* receiver: one record per connection (request in flight / answered)
  initSync,       \* receiver: the sync started in the server.listen callback
  deviceStatus,   \* receiver: .sync-service/device-status.json
  vaultAuth,      \* is the op CLI session authenticated (op account list)
  vault,          \* the documents held by the vault, in creation order
  local,          \* local[d][f]: content of watched file f on device d
  registry,       \* .sync-service/devices.json: the sequence of device records
  now,            \* the wall clock read by new Date() / date -u
  daemon,         \* daemon[d]: where main() of the daemon of device d stands
  adder,          \* a run of add-device.sh
  periodic,       \* periodic[d]: the periodicSync call of device d
  handlers,       \* the handleFileChange calls in flight
  changeEvents,   \* 'change' events of fs.watch not yet delivered
  syncStatus,     \* syncStatus[d]: .sync-service/sync-status.json of device d
  hung,           \* the peers whose receiver never answers a notification
  budget          \* what is left of the bounded inputs (operator edits, ticks, starts)

recvVars   == <<webhookSecret, reqs, initSync, deviceStatus>>
vaultVars  == <<vaultAuth, vault, local>>
regVars    == <<registry, now, adder>>
daemonVars == <<daemon, periodic, handlers, syncStatus, hung, budget>>

vars == <<webhookSecret, reqs, initSync, deviceStatus, vaultAuth, vault, local,
          registry, now, daemon, adder, periodic, handlers, changeEvents,
          syncStatus, hung, budget>>

----------------------------------------------------------------------------
(* Bounds of the model *)
MaxSlots == 1       \* connections the receiver serves at once (the startup sync runs beside them)
MaxTime == 1        \* the clock stops here
MaxStarts == 2      \* starts of daemon processes
MaxAdds == 1        \* runs of add-device.sh
MaxEdits == 2       \* writes of the operator to watched files
MaxTicks == 1       \* firings of the setInterval timer
MaxHandlers == 1    \* handleFileChange calls in flight at once
MaxVault == 3       \* documents the vault holds

(* Program constants *)
DigestLen == 71     \* 'sha256=' followed by 64 hex characters

----------------------------------------------------------------------------
(* Devices, files and contents *)
Devices == {"A", "B"}
RECV_DEVICE_ID == "B"
WATCH_FILES == {".env.local", "credentials.json", "secrets.json"}
\* the content of a file is the sequence of its pieces; a file of zero bytes
\* has none
Empty == << >>
Missing == << "ENOENT" >>
V1 == << "v1" >>
V2 == << "v2" >>
Contents == {V1, V2}

NoSecret == ""
Secrets == {"s1", "s2"}

----------------------------------------------------------------------------
(* Requests *)
Bodies == {"badjson", "requested", "rerequested", "completed",
           "pushSecret", "pushOther", "manual"}

\* JSON.parse(body) succeeds
BodyIsJson(b) == b # "badjson"

\* payload.action
BodyAction(b) ==
  CASE b = "requested"   -> "requested"
    [] b = "rerequested" -> "rerequested"
    [] b = "completed"   -> "completed"
    [] OTHER             -> "undefined"

\* payload.commits: each commit lists paths as added, modified or removed;
\* a path is the sequence of its pieces, so that String.includes is a
\* search for a contiguous run of pieces.
BodyCommits(b) ==
  CASE b = "pushSecret" -> { [kind |-> "modified", path |-> <<"config/", ".env", ".local">>],
                             [kind |-> "added",    path |-> <<"README.md">>] }
    [] b = "pushOther"  -> { [kind |-> "removed",  path |-> <<"secrets.json">>],
                             [kind |-> "added",    path |-> <<"README.md">>] }
    [] OTHER            -> {}

\* an HMAC-SHA256 digest is taken to be collision free: it is determined by,
\* and determines, the key and the signed bytes
Digest(secret, body) == [len |-> DigestLen, key |-> secret, over |-> body]
EmptySig  == [len |-> 0, key |-> "", over |-> ""]
ShortSig  == [len |-> 6, key |-> "junk", over |-> "junk"]
JunkSig   == [len |-> DigestLen, key |-> "junk", over |-> "junk"]

\* the body a tampered request was originally signed for
SignedFor(b) == IF b = "manual" THEN "requested" ELSE "manual"

SigsFor(b) == { EmptySig, ShortSig, JunkSig,
                Digest("s1", b), Digest("s2", b), Digest("s1", SignedFor(b)) }

NoReq == [method |-> "-", url |-> "-", event |-> "-", hasSig |-> FALSE,
          sig |-> EmptySig, body |-> "-"]

GetRequests ==
  { [method |-> m, url |-> u, event |-> "none", hasSig |-> FALSE,
     sig |-> EmptySig, body |-> "-"] :
       m \in {"GET"}, u \in {"/health", "/status", "/sync", "/other"} }
  \cup
  { [method |-> m, url |-> "/health", event |-> "none", hasSig |-> FALSE,
     sig |-> EmptySig, body |-> "-"] : m \in {"OPTIONS", "PUT"} }

PostRequests(urls, events, bodies) ==
  UNION { { [method |-> "POST", url |-> u, event |-> e, hasSig |-> FALSE,
             sig |-> EmptySig, body |-> b] : u \in urls, e \in events }
          \cup
          { [method |-> "POST", url |-> u, event |-> e, hasSig |-> TRUE,
             sig |-> s, body |-> b] : u \in urls, e \in events, s \in SigsFor(b) }
        : b \in bodies }

----------------------------------------------------------------------------
(* The vault and the pull script *)

\* title of the document the daemon of device d keeps for file f
ItemName(d, f) == <<d, f>>

\* what `- <<< '...'` hands to op on standard input: a here-string is the
\* text followed by a newline
HereString(c) == Append(c, "\n")

\* the document `op document create --title ... --file-name ... - <<< '...'` stores
VaultItem(d, f, c) ==
  [title |-> ItemName(d, f), fileName |-> f, content |-> HereString(c)]

\* positions of the documents stored for file f, oldest first
ItemsFor(v, f) == { i \in 1..Len(v) : v[i].fileName = f }

Max(S) == CHOOSE x \in S : \A y \in S : y <= x

\* the content most recently stored in the vault for file f
LatestContent(v, f) == v[Max(ItemsFor(v, f))].content

\* scripts/onepass/sync-secrets.sh: a full refresh of the local secret
\* files of device d from the vault
PulledFiles(d) ==
  [f \in WATCH_FILES |->
     IF ItemsFor(vault, f) = {} THEN local[d][f] ELSE LatestContent(vault, f)]

\* the files the script writes: those the vault holds a document for
PulledSet == { f \in WATCH_FILES : ItemsFor(vault, f) # {} }

\* a device whose daemon has its fs.watch watchers open
Watching(d) == daemon[d].pc \in {"initialSync", "running"}

\* bash scripts/onepass/sync-secrets.sh run on device d to its end, as both
\* processes run it; ok: the script exited 0.  It fails when the op session
\* is not authenticated.  Every file it writes raises a 'change' event on a
\* device that watches its files.
PullScript(d, ok) ==
  /\ ok = vaultAuth
  /\ local' = IF ok THEN [local EXCEPT ![d] = PulledFiles(d)] ELSE local
  /\ changeEvents' = IF ok /\ Watching(d)
                        THEN changeEvents \cup { <<d, f>> : f \in PulledSet }
                        ELSE changeEvents

----------------------------------------------------------------------------
(* Webhook receiver *)

Slots == 1..MaxSlots

\* device-status.json does not exist
NoStatus == [deviceId |-> "-", status |-> "absent"]

\* device-status.json between the open of fs.writeFile (flag 'w') and its
\* write: created with zero bytes when there was no file, cut to zero bytes
\* when there was one
Created == [deviceId |-> "-", status |-> "created"]
Truncated == [deviceId |-> "-", status |-> "truncated"]

IdleSlot == [pc |-> "idle", req |-> NoReq, result |-> "none", status |-> 0,
             msg |-> "-", data |-> NoStatus, ranSync |-> FALSE, wroteStatus |-> FALSE]

\* JavaScript truthiness of req.headers['x-hub-signature-256']
HeaderTruthy(r) == r.hasSig /\ r.sig.len > 0

\* crypto.timingSafeEqual throws on buffers of different length
timingSafeEqual(a, b) ==
  IF a.len # b.len THEN "throws" ELSE IF a = b THEN "true" ELSE "false"

verifySignature(payload, signature) ==
  IF webhookSecret = NoSecret
    THEN TRUE
    ELSE timingSafeEqual(signature, Digest(webhookSecret, payload)) = "true"

\* the condition of the 401 branch of the request handler
SignatureRejected(r) ==
  /\ webhookSecret # NoSecret
  /\ HeaderTruthy(r)
  /\ ~verifySignature(r.body, r.sig)

\* String.prototype.includes on paths cut into pieces
Includes(path, s) ==
  \E i \in 1..Len(path) :
     /\ i + Len(s) - 1 <= Len(path)
     /\ SubSeq(path, i, i + Len(s) - 1) = s

secretFiles == { <<".env", ".local">>, <<".env">>, <<"secrets.json">>, <<"credentials.json">> }

modifiedFiles(b) == { c.path : c \in { x \in BodyCommits(b) : x.kind \in {"added", "modified"} } }

\* (mutant) a push handler that looks at the removed paths too
secretsTouched(b) ==
  \E file \in { c.path : c \in BodyCommits(b) } : \E secret \in secretFiles : Includes(file, secret)

secretsModified(b) == \E file \in modifiedFiles(b) : \E secret \in secretFiles : Includes(file, secret)

\* handleBuildWebhook: does the payload start a sync
BuildSyncs(b) == BodyAction(b) \in {"requested", "rerequested"}

\* The handler a POST is routed to: the switch on x-github-event
Route(r) ==
  CASE r.event \in {"workflow_run", "workflow_job"} -> "build"
    [] r.event = "push"                              -> "push"
    [] r.url = "/sync"                               -> "manual"
    [] OTHER                                         -> "unhandled"

\* does the routed handler call syncSecretsFromOnePassword
RouteSyncs(r) ==
  CASE Route(r) = "build"  -> BuildSyncs(r.body)
    [] Route(r) = "push"   -> secretsModified(r.body)
    [] Route(r) = "manual" -> TRUE
    [] OTHER               -> FALSE

Answered(r, code, m, d) ==
  [pc |-> "done", req |-> r, result |-> "none", status |-> code, msg |-> m,
   data |-> d, ranSync |-> FALSE, wroteStatus |-> FALSE]

\* (mutant) a health check that reports healthy only once a status record exists
HealthResponseNeedsStatus(r) ==
  IF deviceStatus = NoStatus
    THEN Answered(r, 503, "health", [deviceId |-> RECV_DEVICE_ID, status |-> "starting"])
    ELSE Answered(r, 200, "health", [deviceId |-> RECV_DEVICE_ID, status |-> "healthy"])

\* GET /health
HealthResponse(r) ==
  Answered(r, 200, "health", [deviceId |-> RECV_DEVICE_ID, status |-> "healthy"])

\* GET /status: fs.readFile throws when there is no file, JSON.parse throws
\* on a file of zero bytes; the catch answers 404
StatusResponse(r) ==
  IF deviceStatus \in {NoStatus, Created, Truncated}
    THEN Answered(r, 404, "No status available", NoStatus)
    ELSE Answered(r, 200, "status", deviceStatus)

\* The request handler up to its first await on the sync script, or to its
\* response when it does not sync.
HandleRequest(r) ==
  CASE r.method = "OPTIONS" -> Answered(r, 200, "options", NoStatus)
    [] r.method = "GET" /\ r.url = "/health" -> HealthResponse(r)
    [] r.method = "GET" /\ r.url = "/status" -> StatusResponse(r)
    [] r.method = "POST" ->
         IF SignatureRejected(r) THEN Answered(r, 401, "Invalid signature", NoStatus)
         ELSE IF ~BodyIsJson(r.body) THEN Answered(r, 500, "error", NoStatus)
         ELSE IF RouteSyncs(r)
           THEN [pc |-> "syncing", req |-> r, result |-> "none", status |-> 0,
                 msg |-> "-", data |-> NoStatus, ranSync |-> TRUE, wroteStatus |-> FALSE]
         ELSE Answered(r, 200,
                       CASE Route(r) = "build" -> "Webhook received but no action taken"
                         [] Route(r) = "push"  -> "Push received but no secrets modified"
                         [] OTHER              -> "Event received but not handled",
                       NoStatus)
    [] OTHER -> Answered(r, 404, "Not found", NoStatus)

Receive(s, r) ==
  /\ reqs[s].pc = "idle"
  /\ reqs' = [reqs EXCEPT ![s] = HandleRequest(r)]
  /\ UNCHANGED <<webhookSecret, initSync, deviceStatus, vaultAuth, vault, local>>
  /\ UNCHANGED <<regVars, daemonVars, changeEvents>>

\* syncSecretsFromOnePassword on device d: the script runs to its end; ok
\* is result.success
syncSecretsFromOnePassword(d, ok) == PullScript(d, ok)

SyncComplete(s) ==
  /\ reqs[s].pc = "syncing"
  /\ \E ok \in BOOLEAN :
       /\ syncSecretsFromOnePassword(RECV_DEVICE_ID, ok)
       /\ reqs' = [reqs EXCEPT ![s].pc = "status",
                               ![s].result = IF ok THEN "ok" ELSE "fail"]
  /\ UNCHANGED <<webhookSecret, initSync, deviceStatus, vaultAuth, vault>>
  /\ UNCHANGED <<regVars, daemonVars>>

\* updateDeviceStatus(status): the record written to device-status.json
StatusRecord(status) ==
  [deviceId |-> RECV_DEVICE_ID, lastSync |-> now, status |-> status,
   hostname |-> "hostname", platform |-> "platform"]

\* updateDeviceStatus: fs.writeFile opens the file and cuts it
OpenStatusFile ==
  deviceStatus' = IF deviceStatus \in {NoStatus, Created} THEN Created ELSE Truncated

\* (mutant) a status write that keeps quiet about a failed sync
updateDeviceStatusUnlessFailed(status) ==
  deviceStatus' = IF status = "sync_failed" THEN StatusRecord("synced") ELSE StatusRecord(status)

\* updateDeviceStatus: fs.writeFile writes the record
updateDeviceStatus(status) == deviceStatus' = StatusRecord(status)

\* handleBuildWebhook / handlePushWebhook / handleSyncRequest after the
\* sync: updateDeviceStatus up to the open of its fs.writeFile
BeginUpdateStatus(s) ==
  /\ reqs[s].pc = "status"
  /\ OpenStatusFile
  /\ reqs' = [reqs EXCEPT ![s].pc = "write"]
  /\ UNCHANGED <<webhookSecret, initSync, vaultAuth, vault, local>>
  /\ UNCHANGED <<regVars, daemonVars, changeEvents>>

\* the rest of handleBuildWebhook / handlePushWebhook / handleSyncRequest
\* after the sync, and the response
UpdateStatusAndRespond(s) ==
  /\ reqs[s].pc = "write"
  /\ updateDeviceStatus(IF reqs[s].result = "ok" THEN "synced" ELSE "sync_failed")
  /\ reqs' = [reqs EXCEPT ![s].pc = "done",
                          ![s].wroteStatus = TRUE,
                          ![s].status = IF reqs[s].result = "ok" THEN 200 ELSE 500,
                          ![s].msg = CASE Route(reqs[s].req) = "build" ->
                                            IF reqs[s].result = "ok"
                                              THEN "Secrets synced successfully"
                                              ELSE "Secret sync failed"
                                       [] Route(reqs[s].req) = "push" ->
                                            "Secrets updated from 1Password"
                                       [] OTHER ->
                                            IF reqs[s].result = "ok"
                                              THEN "Manual sync completed"
                                              ELSE "Manual sync failed"]
  /\ UNCHANGED <<webhookSecret, initSync, vaultAuth, vault, local>>
  /\ UNCHANGED <<regVars, daemonVars, changeEvents>>

\* the client has read the response; the connection serves the next request
Close(s) ==
  /\ reqs[s].pc = "done"
  /\ reqs' = [reqs EXCEPT ![s] = IdleSlot]
  /\ UNCHANGED <<webhookSecret, initSync, deviceStatus, vaultAuth, vault, local>>
  /\ UNCHANGED <<regVars, daemonVars, changeEvents>>

\* server.listen callback: the initial sync on startup
InitSyncComplete ==
  /\ initSync.pc = "syncing"
  /\ \E ok \in BOOLEAN :
       /\ syncSecretsFromOnePassword(RECV_DEVICE_ID, ok)
       /\ initSync' = [pc |-> "status", result |-> IF ok THEN "ok" ELSE "fail"]
  /\ UNCHANGED <<webhookSecret, reqs, deviceStatus, vaultAuth, vault>>
  /\ UNCHANGED <<regVars, daemonVars>>

InitBeginUpdateStatus ==
  /\ initSync.pc = "status"
  /\ OpenStatusFile
  /\ initSync' = [initSync EXCEPT !.pc = "write"]
  /\ UNCHANGED <<webhookSecret, reqs, vaultAuth, vault, local>>
  /\ UNCHANGED <<regVars, daemonVars, changeEvents>>

InitUpdateStatus ==
  /\ initSync.pc = "write"
  /\ updateDeviceStatus(IF initSync.result = "ok" THEN "initialized"
                                                  ELSE "initialization_failed")
  /\ initSync' = [initSync EXCEPT !.pc = "done"]
  /\ UNCHANGED <<webhookSecret, reqs, vaultAuth, vault, local>>
  /\ UNCHANGED <<regVars, daemonVars, changeEvents>>

\* the op session is signed in or expires
VaultSession ==
  /\ vaultAuth' = ~vaultAuth
  /\ UNCHANGED <<webhookSecret, reqs, initSync, deviceStatus, vault, local>>
  /\ UNCHANGED <<regVars, daemonVars, changeEvents>>

----------------------------------------------------------------------------
(* The device registry devices.json and its writers *)

\* ids add-device.sh registers: the two modelled devices and two remote peers
DeviceIds == Devices \cup {"C", "D"}
Hostnames == {"h1", "h2"}

NullUrl == [host |-> "", path |-> ""]
Url(d) == [host |-> d, path |-> "/sync"]

\* process.env.SYNC_URL || null of the daemon of device d
SYNC_URL(d) == Url(d)

\* devices.json of zero bytes: the file between the open of a write (flag
\* 'w' of fs.writeFile, `>` of the shell) and the write itself
ZeroBytes == << [id |-> "", bytes |-> 0] >>

\* getRegisteredDevices: the parsed file; JSON.parse throws on a file of
\* zero bytes and the catch returns { devices: [] }
getRegisteredDevices == IF registry = ZeroBytes THEN << >> ELSE registry

\* findIndex(d => d.id === id): 0 when there is none
findIndex(devs, id) ==
  IF \E i \in 1..Len(devs) : devs[i].id = id
    THEN CHOOSE i \in 1..Len(devs) :
           /\ devs[i].id = id
           /\ \A j \in 1..(i - 1) : devs[j].id # id
    ELSE 0

\* deviceInfo of registerDevice (platform and arch are fixed per machine and left out)
DeviceInfo(d, hostname) ==
  [id |-> d, hostname |-> hostname, registeredAt |-> now, lastSeen |-> now,
   syncUrl |-> SYNC_URL(d)]

\* { ...existing, ...info }: every key of info overrides existing
SpreadMerge(existing, info) ==
  [k \in (DOMAIN existing) \cup (DOMAIN info) |->
     IF k \in DOMAIN info THEN info[k] ELSE existing[k]]

\* registerDevice: update or add
Upsert(devs, info) ==
  LET i == findIndex(devs, info.id) IN
    IF i > 0 THEN [devs EXCEPT ![i] = SpreadMerge(devs[i], info)]
             ELSE Append(devs, info)

StoppedDaemon == [pc |-> "stopped", hostname |-> "-", buf |-> << >>]

\* main(): the process starts, on a machine whose hostname is h
Start(d, h) ==
  /\ daemon[d].pc \in {"stopped", "exited"}
  /\ budget.starts > 0
  /\ budget' = [budget EXCEPT !.starts = @ - 1]
  /\ daemon' = [daemon EXCEPT ![d] = [pc |-> "registerRead", hostname |-> h, buf |-> << >>]]
  /\ UNCHANGED <<recvVars, vaultVars, regVars, periodic, handlers, changeEvents,
                 syncStatus, hung>>

\* registerDevice up to await fs.writeFile: the file is read and the new
\* content is computed
RegisterRead(d) ==
  /\ daemon[d].pc = "registerRead"
  /\ daemon' = [daemon EXCEPT ![d].pc = "registerWrite",
                              ![d].buf = Upsert(getRegisteredDevices,
                                                DeviceInfo(d, daemon[d].hostname))]
  /\ UNCHANGED <<recvVars, vaultVars, regVars, periodic, handlers, changeEvents,
                 syncStatus, hung, budget>>

\* registerDevice: fs.writeFile(devicesFile, ...)
RegisterWrite(d) ==
  /\ daemon[d].pc = "registerWrite"
  /\ registry' = daemon[d].buf
  /\ daemon' = [daemon EXCEPT ![d].pc = "auth", ![d].buf = << >>]
  /\ UNCHANGED <<recvVars, vaultVars, now, adder, periodic, handlers, changeEvents,
                 syncStatus, hung, budget>>

\* check1PasswordAuth
check1PasswordAuth == vaultAuth

IdlePeriodic == [pc |-> "idle", result |-> "none", buf |-> << >>]

\* (mutant) a main() that goes on whatever the authentication check says
MainAuthWithoutExit(d) ==
  /\ daemon[d].pc = "auth"
  /\ daemon' = [daemon EXCEPT ![d].pc = "initialSync"]
  /\ periodic' = [periodic EXCEPT ![d] = [IdlePeriodic EXCEPT !.pc = "exec"]]
  /\ UNCHANGED <<recvVars, vaultVars, regVars, handlers, changeEvents,
                 syncStatus, hung, budget>>

\* main(): the authentication check; on success the watchers are set up
\* (fs.watch throws on a file that does not exist) and the initial
\* periodicSync is called and awaited
MainAuth(d) ==
  /\ daemon[d].pc = "auth"
  /\ IF check1PasswordAuth /\ \A f \in WATCH_FILES : local[d][f] # Missing
       THEN /\ daemon' = [daemon EXCEPT ![d].pc = "initialSync"]
            /\ periodic' = [periodic EXCEPT ![d] = [IdlePeriodic EXCEPT !.pc = "exec"]]
       ELSE /\ daemon' = [daemon EXCEPT ![d].pc = "exited"]
            /\ UNCHANGED periodic
  /\ UNCHANGED <<recvVars, vaultVars, regVars, handlers, changeEvents,
                 syncStatus, hung, budget>>

\* main(): the initial sync has returned; setInterval(periodicSync, SYNC_INTERVAL)
MainRunning(d) ==
  /\ daemon[d].pc = "initialSync"
  /\ periodic[d].pc = "idle"
  /\ daemon' = [daemon EXCEPT ![d].pc = "running"]
  /\ UNCHANGED <<recvVars, vaultVars, regVars, periodic, handlers, changeEvents,
                 syncStatus, hung, budget>>

IdleAdder == [pc |-> "idle", buf |-> << >>]

\* NEW_DEVICE of add-device.sh
ManualDevice(id, h, url) ==
  [id |-> id, hostname |-> h, syncUrl |-> url, registeredAt |-> now,
   lastSeen |-> now, addedManually |-> TRUE]

\* add-device.sh: the file is read (cat) and the record added (jq '.devices += [...]');
\* jq given no input gives no output, so a file of zero bytes stays one
AddDeviceRead(id, h, url) ==
  /\ adder.pc = "idle"
  /\ budget.adds > 0
  /\ budget' = [budget EXCEPT !.adds = @ - 1]
  /\ adder' = [pc |-> "write",
               buf |-> IF registry = ZeroBytes
                         THEN ZeroBytes
                         ELSE Append(registry, ManualDevice(id, h, url))]
  /\ UNCHANGED <<recvVars, vaultVars, registry, now, daemon, periodic, handlers,
                 changeEvents, syncStatus, hung>>

\* add-device.sh: echo "$UPDATED" | jq '.' > "$DEVICES_FILE"
AddDeviceWrite ==
  /\ adder.pc = "write"
  /\ registry' = adder.buf
  /\ adder' = IdleAdder
  /\ UNCHANGED <<recvVars, vaultVars, now, daemon, periodic, handlers,
                 changeEvents, syncStatus, hung, budget>>

\* registerDevice: fs.writeFile opens devices.json and cuts it
RegisterOpen(d) ==
  /\ daemon[d].pc = "registerWrite"
  /\ registry' = ZeroBytes
  /\ daemon' = [daemon EXCEPT ![d].pc = "registerFlush"]
  /\ UNCHANGED <<recvVars, vaultVars, now, adder, periodic, handlers, changeEvents,
                 syncStatus, hung, budget>>

\* registerDevice: fs.writeFile writes the collection
RegisterFlush(d) ==
  /\ daemon[d].pc = "registerFlush"
  /\ registry' = daemon[d].buf
  /\ daemon' = [daemon EXCEPT ![d].pc = "auth", ![d].buf = << >>]
  /\ UNCHANGED <<recvVars, vaultVars, now, adder, periodic, handlers, changeEvents,
                 syncStatus, hung, budget>>

\* add-device.sh: `> "$DEVICES_FILE"` opens the file and cuts it before jq writes
AddDeviceOpen ==
  /\ adder.pc = "write"
  /\ registry' = ZeroBytes
  /\ adder' = [adder EXCEPT !.pc = "flush"]
  /\ UNCHANGED <<recvVars, vaultVars, now, daemon, periodic, handlers,
                 changeEvents, syncStatus, hung, budget>>

\* add-device.sh: jq '.' writes the collection
AddDeviceFlush ==
  /\ adder.pc = "flush"
  /\ registry' = adder.buf
  /\ adder' = IdleAdder
  /\ UNCHANGED <<recvVars, vaultVars, now, daemon, periodic, handlers,
                 changeEvents, syncStatus, hung, budget>>

\* time passes
AdvanceClock ==
  /\ now < MaxTime
  /\ now' = now + 1
  /\ UNCHANGED <<recvVars, vaultVars, registry, adder, daemonVars, changeEvents>>

----------------------------------------------------------------------------
(* The daemon: periodic sync and heartbeat *)

NoSyncStatus == [deviceId |-> "-", status |-> "absent", lastFile |-> "-",
                 error |-> FALSE, periodic |-> FALSE]

\* updateSyncStatus(status) of device d: the record written to sync-status.json
\* (the timestamps lastSync / lastPeriodicSync are left out)
SyncStatusRecord(d, status, file, isPeriodic) ==
  [deviceId |-> d, status |-> status, lastFile |-> file,
   error |-> (status = "failed"), periodic |-> isPeriodic]

\* the setInterval timer fires and calls periodicSync: the call before it
\* has returned, or hangs in its script run and never continues
Tick(d) ==
  /\ daemon[d].pc = "running"
  /\ periodic[d].pc \in {"idle", "hung"}
  /\ budget.ticks > 0
  /\ budget' = [budget EXCEPT !.ticks = @ - 1]
  /\ periodic' = [periodic EXCEPT ![d].pc = "exec"]
  /\ UNCHANGED <<recvVars, vaultVars, regVars, daemon, handlers, changeEvents,
                 syncStatus, hung>>

\* (mutant) a periodicSync that reports the script's success without the
\* script having refreshed anything
PeriodicExecWithoutPull(d) ==
  /\ periodic[d].pc = "exec"
  /\ periodic' = [periodic EXCEPT ![d].pc = "status",
                                  ![d].result = IF vaultAuth THEN "ok" ELSE "fail"]
  /\ UNCHANGED <<recvVars, vaultVars, regVars, daemon, handlers, changeEvents,
                 syncStatus, hung, budget>>

\* periodicSync: await execAsync(`bash ${syncScript}`)
PeriodicExec(d) ==
  /\ periodic[d].pc = "exec"
  /\ \E ok \in BOOLEAN :
       /\ PullScript(d, ok)
       /\ periodic' = [periodic EXCEPT ![d].pc = "status",
                                       ![d].result = IF ok THEN "ok" ELSE "fail"]
  /\ UNCHANGED <<recvVars, vaultAuth, vault, regVars, daemon, handlers,
                 syncStatus, hung, budget>>

\* periodicSync: await execAsync(`bash ${syncScript}`) with a vault CLI call
\* that never returns: exec is given no timeout, the child does not end and
\* the promise never settles
PeriodicHang(d) ==
  /\ periodic[d].pc = "exec"
  /\ periodic' = [periodic EXCEPT ![d].pc = "hung"]
  /\ UNCHANGED <<recvVars, vaultVars, regVars, daemon, handlers, changeEvents,
                 syncStatus, hung, budget>>

\* (mutant) a periodicSync that updates the heartbeat only after a pull
\* that succeeded
PeriodicStatusHeartbeatOnSuccess(d) ==
  /\ periodic[d].pc = "status"
  /\ syncStatus' = [syncStatus EXCEPT ![d] =
                      SyncStatusRecord(d, IF periodic[d].result = "ok" THEN "synced"
                                                                      ELSE "failed",
                                       "-", TRUE)]
  /\ periodic' = [periodic EXCEPT ![d] =
                    IF periodic[d].result = "ok" THEN [@ EXCEPT !.pc = "hbRead"]
                                                 ELSE IdlePeriodic]
  /\ UNCHANGED <<recvVars, vaultVars, regVars, daemon, handlers, changeEvents,
                 hung, budget>>

\* periodicSync: await updateSyncStatus({ lastPeriodicSync, status })
PeriodicStatus(d) ==
  /\ periodic[d].pc = "status"
  /\ syncStatus' = [syncStatus EXCEPT ![d] =
                      SyncStatusRecord(d, IF periodic[d].result = "ok" THEN "synced"
                                                                      ELSE "failed",
                                       "-", TRUE)]
  /\ periodic' = [periodic EXCEPT ![d].pc = "hbRead"]
  /\ UNCHANGED <<recvVars, vaultVars, regVars, daemon, handlers, changeEvents,
                 hung, budget>>

\* (mutant) a heartbeat that stamps the whole record anew
TouchedWithRegisteredAt(devs, d) ==
  LET i == findIndex(devs, d) IN
    [devs EXCEPT ![i].lastSeen = now, ![i].registeredAt = now]

\* updateHeartbeat: the registry with lastSeen of the record found for d set to now
Touched(devs, d) ==
  LET i == findIndex(devs, d) IN [devs EXCEPT ![i].lastSeen = now]

\* updateHeartbeat up to await fs.writeFile
HeartbeatRead(d) ==
  /\ periodic[d].pc = "hbRead"
  /\ IF findIndex(getRegisteredDevices, d) > 0
       THEN periodic' = [periodic EXCEPT ![d].pc = "hbWrite",
                                         ![d].buf = Touched(getRegisteredDevices, d)]
       ELSE periodic' = [periodic EXCEPT ![d] = IdlePeriodic]
  /\ UNCHANGED <<recvVars, vaultVars, regVars, daemon, handlers, changeEvents,
                 syncStatus, hung, budget>>

\* updateHeartbeat: fs.writeFile(devicesFile, ...)
HeartbeatWrite(d) ==
  /\ periodic[d].pc = "hbWrite"
  /\ registry' = periodic[d].buf
  /\ periodic' = [periodic EXCEPT ![d] = IdlePeriodic]
  /\ UNCHANGED <<recvVars, vaultVars, now, adder, daemon, handlers, changeEvents,
                 syncStatus, hung, budget>>

\* updateHeartbeat: fs.writeFile opens devices.json and cuts it
HeartbeatOpen(d) ==
  /\ periodic[d].pc = "hbWrite"
  /\ registry' = ZeroBytes
  /\ periodic' = [periodic EXCEPT ![d].pc = "hbFlush"]
  /\ UNCHANGED <<recvVars, vaultVars, now, adder, daemon, handlers, changeEvents,
                 syncStatus, hung, budget>>

\* updateHeartbeat: fs.writeFile writes the collection
HeartbeatFlush(d) ==
  /\ periodic[d].pc = "hbFlush"
  /\ registry' = periodic[d].buf
  /\ periodic' = [periodic EXCEPT ![d] = IdlePeriodic]
  /\ UNCHANGED <<recvVars, vaultVars, now, adder, daemon, handlers, changeEvents,
                 syncStatus, hung, budget>>

----------------------------------------------------------------------------
(* The daemon: handleFileChange *)

HandlerIds == 1..MaxHandlers

IdleHandler == [pc |-> "idle", dev |-> "-", file |-> "-", content |-> Empty,
                devices |-> << >>, fetches |-> << >>, result |-> "none", wrote |-> "-"]

\* the operator writes, truncates or removes a watched file; a write raises
\* a 'change' event where the file is watched (a removal raises 'rename')
OperatorWrite(d, f, c) ==
  /\ budget.edits > 0
  /\ budget' = [budget EXCEPT !.edits = @ - 1]
  /\ local' = [local EXCEPT ![d][f] = c]
  /\ changeEvents' = IF Watching(d) /\ c # Missing
                       THEN changeEvents \cup {<<d, f>>}
                       ELSE changeEvents
  /\ UNCHANGED <<recvVars, vaultAuth, vault, regVars, daemon, periodic, handlers,
                 syncStatus, hung>>

\* the watcher callback: eventType === 'change' -> handleFileChange(filePath)
StartHandler(h, d, f) ==
  /\ handlers[h].pc = "idle"
  /\ <<d, f>> \in changeEvents
  /\ Watching(d)
  /\ changeEvents' = changeEvents \ {<<d, f>>}
  /\ handlers' = [handlers EXCEPT ![h] = [IdleHandler EXCEPT !.pc = "stat",
                                                            !.dev = d, !.file = f]]
  /\ UNCHANGED <<recvVars, vaultVars, regVars, daemon, periodic, syncStatus, hung, budget>>

\* handleFileChange: await fs.stat; an empty or missing file ends the handler
FileStat(h) ==
  /\ handlers[h].pc = "stat"
  /\ handlers' = [handlers EXCEPT ![h] =
        IF local[handlers[h].dev][handlers[h].file] \in {Missing, Empty}
          THEN IdleHandler
          ELSE [handlers[h] EXCEPT !.pc = "auth"]]
  /\ UNCHANGED <<recvVars, vaultVars, regVars, daemon, periodic, changeEvents,
                 syncStatus, hung, budget>>

\* handleFileChange: await check1PasswordAuth()
HandlerAuth(h) ==
  /\ handlers[h].pc = "auth"
  /\ handlers' = [handlers EXCEPT ![h] =
        IF check1PasswordAuth THEN [handlers[h] EXCEPT !.pc = "read"] ELSE IdleHandler]
  /\ UNCHANGED <<recvVars, vaultVars, regVars, daemon, periodic, changeEvents,
                 syncStatus, hung, budget>>

\* uploadSecretToOnePassword: await fs.readFile(filePath, 'utf8'); a missing
\* file throws and the upload returns { success: false }
ReadFile(h) ==
  /\ handlers[h].pc = "read"
  /\ handlers' = [handlers EXCEPT ![h] =
        IF local[handlers[h].dev][handlers[h].file] = Missing
          THEN [handlers[h] EXCEPT !.pc = "status", !.result = "fail"]
          ELSE [handlers[h] EXCEPT !.pc = "exec",
                                   !.content = local[handlers[h].dev][handlers[h].file]]]
  /\ UNCHANGED <<recvVars, vaultVars, regVars, daemon, periodic, changeEvents,
                 syncStatus, hung, budget>>

\* positions of the documents titled t
Titled(v, t) == { i \in 1..Len(v) : v[i].title = t }

\* v without its i-th element
Without(v, i) == SubSeq(v, 1, i - 1) \o SubSeq(v, i + 1, Len(v))

\* op document create --title t: the vault takes the document as a new item,
\* whether or not an item of that title exists (titles are not keys)
OpCreate(v, item) == Append(v, item)

\* op document edit t: the one item titled t gets the new content and becomes
\* the most recently written
OpEdit(v, item) ==
  LET i == CHOOSE i \in Titled(v, item.title) : TRUE IN Append(Without(v, i), item)

\* the ways `op document create ... || op document edit ...` can end for item:
\* "created", "edited" (create failed, edit found the one item of that
\* title) and "failed" (both commands failed: no session, no room, the
\* service not reached)
UploadOutcomes(v, item) ==
  IF ~vaultAuth THEN {"failed"}
  ELSE {"failed"}
       \cup (IF Len(v) < MaxVault THEN {"created"} ELSE {})
       \cup (IF Cardinality(Titled(v, item.title)) = 1 THEN {"edited"} ELSE {})

\* uploadSecretToOnePassword: await execAsync(command)
ExecUpload(h) ==
  /\ handlers[h].pc = "exec"
  /\ LET item == VaultItem(handlers[h].dev, handlers[h].file, handlers[h].content) IN
     \E out \in UploadOutcomes(vault, item) :
       /\ vault' = CASE out = "created" -> OpCreate(vault, item)
                     [] out = "edited"  -> OpEdit(vault, item)
                     [] OTHER           -> vault
       /\ handlers' = [handlers EXCEPT ![h] =
            IF out = "failed"
              THEN [handlers[h] EXCEPT !.pc = "status", !.result = "fail"]
              ELSE [handlers[h] EXCEPT !.pc = "registry", !.result = "ok"]]
  /\ UNCHANGED <<recvVars, vaultAuth, local, regVars, daemon, periodic, changeEvents,
                 syncStatus, hung, budget>>

\* (mutant) a filter that keeps the device's own record
EligibleWithSelf(dev, self) == dev.syncUrl # NullUrl

\* notifyDevices: d.id !== DEVICE_ID && d.syncUrl
Eligible(dev, self) == dev.id # self /\ dev.syncUrl # NullUrl

\* (mutant) a fan-out that gives up after its first POST
IssueFetchesFirstOnly(devs, self) ==
  LET elig == SelectSeq(devs, LAMBDA x : Eligible(x, self)) IN
    [i \in 1..Len(elig) |->
       [id |-> elig[i].id, url |-> elig[i].syncUrl, sent |-> (i = 1),
        state |-> IF i = 1 THEN "pending" ELSE "skipped"]]

\* notifyDevices: .filter(...).map(async device => { ... await fetch(...) ... }):
\* every callback runs up to its fetch before any of them continues, so all
\* POSTs are issued together
IssueFetches(devs, self) ==
  LET elig == SelectSeq(devs, LAMBDA x : Eligible(x, self)) IN
    [i \in 1..Len(elig) |->
       [id |-> elig[i].id, url |-> elig[i].syncUrl, sent |-> TRUE, state |-> "pending"]]

\* notifyDevices: await getRegisteredDevices(), then the POSTs are issued
NotifyDevices(h) ==
  /\ handlers[h].pc = "registry"
  /\ handlers' = [handlers EXCEPT ![h].pc = "fetch",
                                  ![h].devices = getRegisteredDevices,
                                  ![h].fetches = IssueFetches(getRegisteredDevices,
                                                              handlers[h].dev)]
  /\ UNCHANGED <<recvVars, vaultVars, regVars, daemon, periodic, changeEvents,
                 syncStatus, hung, budget>>

\* (mutant) a fetch that waits for its peer without end
FetchSettleWithoutTimeout(h, i, out) ==
  /\ handlers[h].pc = "fetch"
  /\ i \in 1..Len(handlers[h].fetches)
  /\ handlers[h].fetches[i].sent
  /\ handlers[h].fetches[i].state = "pending"
  /\ handlers[h].fetches[i].id \notin hung
  /\ handlers' = [handlers EXCEPT ![h].fetches[i].state = out]
  /\ UNCHANGED <<recvVars, vaultVars, regVars, daemon, periodic, changeEvents,
                 syncStatus, hung, budget>>

\* one fetch settles: response.ok, a status outside 2xx, or a network error.
\* The call passes neither a timeout nor a signal; the POST to a peer that
\* never answers is ended by the HTTP client of the runtime itself (its
\* connect and headers timeouts), and the fetch rejects.
FetchSettle(h, i, out) ==
  /\ handlers[h].pc = "fetch"
  /\ i \in 1..Len(handlers[h].fetches)
  /\ handlers[h].fetches[i].sent
  /\ handlers[h].fetches[i].state = "pending"
  /\ handlers[h].fetches[i].id \in hung => out = "error"
  /\ handlers' = [handlers EXCEPT ![h].fetches[i].state = out]
  /\ UNCHANGED <<recvVars, vaultVars, regVars, daemon, periodic, changeEvents,
                 syncStatus, hung, budget>>

\* Promise.all(notifications) resolves: every callback has returned
NotifyComplete(h) ==
  /\ handlers[h].pc = "fetch"
  /\ \A i \in 1..Len(handlers[h].fetches) : handlers[h].fetches[i].state # "pending"
  /\ handlers' = [handlers EXCEPT ![h].pc = "status"]
  /\ UNCHANGED <<recvVars, vaultVars, regVars, daemon, periodic, changeEvents,
                 syncStatus, hung, budget>>

\* (mutant) a status write that drops the error of a failed upload
UpdateSyncStatusWithoutError(h) ==
  /\ handlers[h].pc = "status"
  /\ LET st == IF handlers[h].result = "ok" THEN "synced" ELSE "failed" IN
       /\ syncStatus' = [syncStatus EXCEPT ![handlers[h].dev] =
                           [SyncStatusRecord(handlers[h].dev, st, handlers[h].file, FALSE)
                              EXCEPT !.error = FALSE]]
       /\ handlers' = [handlers EXCEPT ![h].pc = "done", ![h].wrote = st]
  /\ UNCHANGED <<recvVars, vaultVars, regVars, daemon, periodic, changeEvents,
                 hung, budget>>

\* handleFileChange: await updateSyncStatus({ lastSync, lastFile, status, error })
UpdateSyncStatus(h) ==
  /\ handlers[h].pc = "status"
  /\ LET st == IF handlers[h].result = "ok" THEN "synced" ELSE "failed" IN
       /\ syncStatus' = [syncStatus EXCEPT ![handlers[h].dev] =
                           SyncStatusRecord(handlers[h].dev, st, handlers[h].file, FALSE)]
       /\ handlers' = [handlers EXCEPT ![h].pc = "done", ![h].wrote = st]
  /\ UNCHANGED <<recvVars, vaultVars, regVars, daemon, periodic, changeEvents,
                 hung, budget>>

\* handleFileChange has returned
HandlerReturn(h) ==
  /\ handlers[h].pc = "done"
  /\ handlers' = [handlers EXCEPT ![h] = IdleHandler]
  /\ UNCHANGED <<recvVars, vaultVars, regVars, daemon, periodic, changeEvents,
                 syncStatus, hung, budget>>

\* SIGTERM / SIGINT: the watchers are closed, the timer is cleared and
\* process.exit(0) ends every call in flight
Shutdown(d) ==
  /\ daemon[d].pc = "running"
  /\ daemon' = [daemon EXCEPT ![d] = StoppedDaemon]
  /\ periodic' = [periodic EXCEPT ![d] = IdlePeriodic]
  /\ handlers' = [h \in HandlerIds |->
                    IF handlers[h].dev = d THEN IdleHandler ELSE handlers[h]]
  /\ changeEvents' = { e \in changeEvents : e[1] # d }
  /\ UNCHANGED <<recvVars, vaultVars, regVars, syncStatus, hung, budget>>

----------------------------------------------------------------------------
(* The receiver alone, with requests of every method, route and signature *)

\* no daemon process runs on any modelled device
NoDaemons ==
  /\ daemon = [d \in Devices |-> StoppedDaemon]
  /\ periodic = [d \in Devices |-> IdlePeriodic]
  /\ handlers = [h \in HandlerIds |-> IdleHandler]
  /\ changeEvents = {}
  /\ syncStatus = [d \in Devices |-> NoSyncStatus]
  /\ hung = {}
  /\ budget = [edits |-> 0, ticks |-> 0, starts |-> 0, adds |-> 0]

RecvRequests ==
  GetRequests
  \cup PostRequests({"/sync", "/other"}, {"none"}, {"manual", "badjson"})
  \cup PostRequests({"/other"}, {"workflow_run", "push"},
                    {"requested", "rerequested", "completed", "pushSecret", "pushOther"})

InitRecv ==
  /\ webhookSecret \in {NoSecret, "s1"}
  /\ reqs = [s \in Slots |-> IdleSlot]
  /\ initSync = [pc |-> "syncing", result |-> "none"]
  /\ deviceStatus = NoStatus
  /\ vaultAuth \in BOOLEAN
  /\ vault = << VaultItem("A", ".env.local", V1) >>
  /\ local = [d \in Devices |-> [f \in WATCH_FILES |-> Missing]]
  /\ NoDaemons
  /\ registry = << >>
  /\ now = 0
  /\ adder = IdleAdder

NextRecv ==
  \/ \E s \in Slots, r \in RecvRequests : Receive(s, r)
  \/ \E s \in Slots : SyncComplete(s)
  \/ \E s \in Slots : BeginUpdateStatus(s)
  \/ \E s \in Slots : UpdateStatusAndRespond(s)
  \/ \E s \in Slots : Close(s)
  \/ InitSyncComplete
  \/ InitBeginUpdateStatus
  \/ InitUpdateStatus
  \/ VaultSession

SpecRecv == InitRecv /\ [][NextRecv]_vars

----------------------------------------------------------------------------
(* The registry and its writers: daemons that start, stop and start again on *)
(* machines whose hostname may have changed, and add-device.sh               *)

\* no request is in flight at the receiver and its startup sync is over
QuietReceiver ==
  /\ webhookSecret = NoSecret
  /\ reqs = [s \in Slots |-> IdleSlot]
  /\ initSync = [pc |-> "done", result |-> "ok"]
  /\ deviceStatus = NoStatus

InitReg ==
  /\ QuietReceiver
  /\ vaultAuth = TRUE
  /\ vault = << >>
  /\ local = [d \in Devices |-> [f \in WATCH_FILES |-> V1]]
  /\ registry = << >>
  /\ now = 0
  /\ adder = IdleAdder
  /\ daemon = [d \in Devices |-> StoppedDaemon]
  /\ periodic = [d \in Devices |-> IdlePeriodic]
  /\ handlers = [h \in HandlerIds |-> IdleHandler]
  /\ changeEvents = {}
  /\ syncStatus = [d \in Devices |-> NoSyncStatus]
  /\ hung = {}
  /\ budget = [edits |-> 0, ticks |-> MaxTicks, starts |-> MaxStarts, adds |-> MaxAdds]

NextReg ==
  \/ \E d \in {"A"}, h \in Hostnames : Start(d, h)
  \/ \E d \in Devices : RegisterRead(d)
  \/ \E d \in Devices : RegisterWrite(d)
  \/ \E d \in Devices : MainAuth(d)
  \/ \E d \in Devices : MainRunning(d)
  \/ \E d \in Devices : Tick(d)
  \/ \E d \in Devices : PeriodicExec(d)
  \/ \E d \in Devices : PeriodicStatus(d)
  \/ \E d \in Devices : HeartbeatRead(d)
  \/ \E d \in Devices : HeartbeatWrite(d)
  \/ \E d \in Devices : Shutdown(d)
  \/ \E id \in {"A", "C"}, url \in {Url("C"), NullUrl} : AddDeviceRead(id, "h1", url)
  \/ AddDeviceWrite
  \/ AdvanceClock

SpecReg == InitReg /\ [][NextReg]_vars

----------------------------------------------------------------------------
(* The registry file under its writers, a daemon and add-device.sh, with    *)
(* the open and the write of every write told apart                         *)

NextRegFile ==
  \/ \E h \in Hostnames : Start("A", h)
  \/ RegisterRead("A")
  \/ RegisterOpen("A")
  \/ RegisterFlush("A")
  \/ MainAuth("A")
  \/ MainRunning("A")
  \/ Tick("A")
  \/ PeriodicExec("A")
  \/ PeriodicStatus("A")
  \/ HeartbeatRead("A")
  \/ HeartbeatOpen("A")
  \/ HeartbeatFlush("A")
  \/ Shutdown("A")
  \/ \E id \in {"A", "C"} : AddDeviceRead(id, "h1", Url("C"))
  \/ AddDeviceOpen
  \/ AddDeviceFlush
  \/ AdvanceClock

SpecRegFile == InitReg /\ [][NextRegFile]_vars

----------------------------------------------------------------------------
(* Two running daemons A and B, the operator, the vault and the peers *)

RegisteredDevice(d) ==
  [id |-> d, hostname |-> "h1", registeredAt |-> 0, lastSeen |-> 0, syncUrl |-> SYNC_URL(d)]

AddedDevice(id, url) ==
  [id |-> id, hostname |-> "h1", syncUrl |-> url, registeredAt |-> 0,
   lastSeen |-> 0, addedManually |-> TRUE]

\* the state main() of both daemons leaves: both registered (at time 0) and
\* running, the initial sync done, the peers C and D added by hand, D
\* without sync URL (pull-only)
InitDaemon ==
  /\ QuietReceiver
  /\ vaultAuth = TRUE
  /\ vault = << >>
  /\ local = [d \in Devices |-> [f \in WATCH_FILES |-> V1]]
  /\ registry = << RegisteredDevice("A"), RegisteredDevice("B"),
                   AddedDevice("C", Url("C")), AddedDevice("D", NullUrl) >>
  /\ now = MaxTime
  /\ adder = IdleAdder
  /\ daemon = [d \in Devices |-> [pc |-> "running", hostname |-> "h1", buf |-> << >>]]
  /\ periodic = [d \in Devices |-> IdlePeriodic]
  /\ handlers = [h \in HandlerIds |-> IdleHandler]
  /\ changeEvents = {}
  /\ syncStatus = [d \in Devices |-> SyncStatusRecord(d, "synced", "-", TRUE)]
  /\ hung \in {{}, {"C"}}
  /\ budget = [edits |-> MaxEdits, ticks |-> MaxTicks, starts |-> 0, adds |-> 0]

\* the steps of one handleFileChange call
HandlerStep(h) ==
  \/ \E d \in Devices, f \in WATCH_FILES : StartHandler(h, d, f)
  \/ FileStat(h)
  \/ HandlerAuth(h)
  \/ ReadFile(h)
  \/ ExecUpload(h)
  \/ NotifyDevices(h)
  \/ \E i \in 1..Cardinality(DeviceIds), out \in {"ok", "non2xx", "error"} :
        FetchSettle(h, i, out)
  \/ NotifyComplete(h)
  \/ UpdateSyncStatus(h)
  \/ HandlerReturn(h)

\* the steps of one periodicSync call
PeriodicStep(d) ==
  \/ PeriodicExec(d)
  \/ PeriodicStatus(d)
  \/ HeartbeatRead(d)
  \/ HeartbeatWrite(d)

NextDaemon ==
  \/ \E c \in {V2, Empty, Missing} : OperatorWrite("A", ".env.local", c)
  \/ \E d \in Devices : Tick(d)
  \/ VaultSession
  \/ \E h \in HandlerIds : HandlerStep(h)
  \/ \E d \in Devices : PeriodicStep(d)

SpecDaemon == InitDaemon /\ [][NextDaemon]_vars

\* the event loop runs every continuation whose awaited call has settled,
\* and a peer that answers at all answers in the end
FairSpecDaemon ==
  /\ SpecDaemon
  /\ \A h \in HandlerIds : WF_vars(HandlerStep(h))
  /\ \A d \in Devices : WF_vars(PeriodicStep(d))

----------------------------------------------------------------------------
(* One device: the receiver and the periodic cycle of the daemon of         *)
(* RECV_DEVICE_ID run side by side on the same project directory           *)

DeviceRequests ==
  { r \in GetRequests : r.method = "GET" /\ r.url = "/status" }
  \cup { r \in PostRequests({"/sync"}, {"none"}, {"manual"}) : ~r.hasSig }

\* the receiver has just started; main() of the daemon has registered the
\* device, run its initial sync and armed the timer
InitDevice ==
  /\ webhookSecret = NoSecret
  /\ reqs = [s \in Slots |-> IdleSlot]
  /\ initSync = [pc |-> "syncing", result |-> "none"]
  /\ deviceStatus = NoStatus
  /\ vaultAuth \in BOOLEAN
  /\ vault = << VaultItem("A", ".env.local", V2) >>
  /\ local = [d \in Devices |-> [f \in WATCH_FILES |-> V1]]
  /\ registry = << RegisteredDevice(RECV_DEVICE_ID), AddedDevice("C", Url("C")) >>
  /\ now = 0
  /\ adder = IdleAdder
  /\ daemon = [d \in Devices |->
                 IF d = RECV_DEVICE_ID
                   THEN [pc |-> "running", hostname |-> "h1", buf |-> << >>]
                   ELSE StoppedDaemon]
  /\ periodic = [d \in Devices |-> IdlePeriodic]
  /\ handlers = [h \in HandlerIds |-> IdleHandler]
  /\ changeEvents = {}
  /\ syncStatus = [d \in Devices |->
                     IF d = RECV_DEVICE_ID THEN SyncStatusRecord(d, "synced", "-", TRUE)
                                           ELSE NoSyncStatus]
  /\ hung = {}
  /\ budget = [edits |-> 0, ticks |-> MaxTicks, starts |-> 0, adds |-> 0]

NextDevice ==
  \/ \E s \in Slots, r \in DeviceRequests : Receive(s, r)
  \/ \E s \in Slots : SyncComplete(s)
  \/ \E s \in Slots : BeginUpdateStatus(s)
  \/ \E s \in Slots : UpdateStatusAndRespond(s)
  \/ \E s \in Slots : Close(s)
  \/ InitSyncComplete
  \/ InitBeginUpdateStatus
  \/ InitUpdateStatus
  \/ Tick(RECV_DEVICE_ID)
  \/ VaultSession
  \/ PeriodicStep(RECV_DEVICE_ID)

SpecDevice == InitDevice /\ [][NextDevice]_vars

----------------------------------------------------------------------------
(* The life of one daemon: it starts, registers, checks the vault session,  *)
(* watches, runs its initial sync and its timer, and is stopped; the vault  *)
(* CLI may hang                                                             *)

InitStart ==
  /\ QuietReceiver
  /\ vaultAuth \in BOOLEAN
  /\ vault = << >>
  /\ local = [d \in Devices |-> [f \in WATCH_FILES |-> V1]]
  /\ registry = << AddedDevice("C", Url("C")) >>
  /\ now = 0
  /\ adder = IdleAdder
  /\ daemon = [d \in Devices |-> StoppedDaemon]
  /\ periodic = [d \in Devices |-> IdlePeriodic]
  /\ handlers = [h \in HandlerIds |-> IdleHandler]
  /\ changeEvents = {}
  /\ syncStatus = [d \in Devices |-> NoSyncStatus]
  /\ hung = {}
  /\ budget = [edits |-> MaxEdits - 1, ticks |-> MaxTicks, starts |-> MaxStarts, adds |-> 0]

NextStart ==
  \/ Start("A", "h1")
  \/ RegisterRead("A")
  \/ RegisterWrite("A")
  \/ MainAuth("A")
  \/ MainRunning("A")
  \/ Tick("A")
  \/ PeriodicStep("A")
  \/ PeriodicHang("A")
  \/ OperatorWrite("A", ".env.local", V2)
  \/ \E h \in HandlerIds : HandlerStep(h)
  \/ VaultSession
  \/ Shutdown("A")

SpecStart == InitStart /\ [][NextStart]_vars

----------------------------------------------------------------------------
(* Claims about the receiver, checked under SpecRecv *)

\* the request of connection s carries a signature header (of any value,
\* the empty one included) that is not the digest of its body under the
\* configured secret
MismatchedSignature(s) ==
  /\ reqs[s].pc # "idle"
  /\ reqs[s].req.method = "POST"
  /\ webhookSecret # NoSecret
  /\ reqs[s].req.hasSig
  /\ reqs[s].req.sig # Digest(webhookSecret, reqs[s].req.body)

\* C1: with a webhook secret configured, a POST whose signature header
\* differs from 'sha256=' + HMAC-SHA256(secret, raw body) is answered 401,
\* runs no sync and does not write the status record.
C1_SignatureRejection ==
  \A s \in Slots :
     MismatchedSignature(s) =>
        /\ reqs[s].pc = "done"
        /\ reqs[s].status = 401
        /\ ~reqs[s].ranSync
        /\ ~reqs[s].wroteStatus

\* C2: with a webhook secret configured, every request that reaches the
\* sync step carried a valid HMAC signature of its body.
C2_SyncOnlyWhenAuthenticated ==
  \A s \in Slots :
     (webhookSecret # NoSecret /\ reqs[s].ranSync) =>
        /\ reqs[s].req.hasSig
        /\ reqs[s].req.sig = Digest(webhookSecret, reqs[s].req.body)

HealthAnswered(s) ==
  /\ reqs[s].pc = "done"
  /\ reqs[s].req.method = "GET"
  /\ reqs[s].req.url = "/health"

\* C10: GET /health is answered 200 with status 'healthy' and the device id
\* in every state of the receiver.
C10_HealthAlways200 ==
  \A s \in Slots :
     HealthAnswered(s) =>
        /\ reqs[s].status = 200
        /\ reqs[s].data.status = "healthy"
        /\ reqs[s].data.deviceId = RECV_DEVICE_ID

\* a health check answered before any status record was written, while the
\* startup sync is still in flight
C10_Witness ==
  \E s \in Slots :
     /\ HealthAnswered(s)
     /\ reqs[s].status = 200
     /\ deviceStatus = NoStatus
     /\ initSync.pc = "syncing"

\* a health check answered after a sync has failed
C10_WitnessAfterFailure ==
  \E s \in Slots :
     /\ HealthAnswered(s)
     /\ deviceStatus.status \in {"sync_failed", "initialization_failed"}

\* the connection s takes a GET /status and answers it
StatusQueried(s) ==
  /\ reqs[s].pc = "idle"
  /\ reqs'[s].pc = "done"
  /\ reqs'[s].req.method = "GET"
  /\ reqs'[s].req.url = "/status"

\* C11: GET /status is answered 404 exactly when no status record has been
\* written yet, and otherwise 200 with the record written last.
C11_StatusQuery ==
  [][ \A s \in Slots :
        StatusQueried(s) =>
          IF deviceStatus \in {NoStatus, Created}
            THEN reqs'[s].status = 404
            ELSE /\ reqs'[s].status = 200
                 /\ reqs'[s].data.deviceId = RECV_DEVICE_ID
                 /\ reqs'[s].data = deviceStatus ]_vars

\* a status query answered with the record of a sync
StatusAnswered(s) ==
  /\ reqs[s].pc = "done"
  /\ reqs[s].req.method = "GET"
  /\ reqs[s].req.url = "/status"
  /\ reqs[s].status = 200

\* C12: the record GET /status returns after a failed sync shows the
\* failure and carries the error string of the failure.
C12_StatusShowsError ==
  \A s \in Slots :
     (StatusAnswered(s)
        /\ reqs[s].data.status \in {"sync_failed", "initialization_failed"}) =>
       "error" \in DOMAIN reqs[s].data

\* a request for nothing the receiver serves: a method or path it has no
\* branch for, or a well-formed POST that is neither a CI event nor /sync
UnknownRoute(r) ==
  \/ r.method \notin {"OPTIONS", "GET", "POST"}
  \/ r.method = "GET" /\ r.url \notin {"/health", "/status"}
  \/ /\ r.method = "POST"
     /\ Route(r) = "unhandled"
     /\ BodyIsJson(r.body)
     /\ ~(webhookSecret # NoSecret /\ r.hasSig)

\* C14: a request that ran a sync is answered 200 or 500 by the outcome of
\* the sync, a non-empty signature that does not verify is answered 401,
\* and a request to an unknown route is answered 404.
C14_StatusMapping ==
  \A s \in Slots :
     reqs[s].pc = "done" =>
        /\ reqs[s].ranSync =>
             reqs[s].status = (IF reqs[s].result = "ok" THEN 200 ELSE 500)
        /\ (MismatchedSignature(s) /\ HeaderTruthy(reqs[s].req)) =>
             reqs[s].status = 401
        /\ UnknownRoute(reqs[s].req) => reqs[s].status = 404

\* C22: with sync requests and the startup sync overlapping, once a status
\* record has been written the status file holds at all times one complete
\* record, written by one of them.
C22_StatusNeverTorn ==
  /\ deviceStatus # Truncated
  /\ deviceStatus \notin {NoStatus, Created} =>
       \E st \in {"synced", "sync_failed", "initialized", "initialization_failed"} :
          /\ deviceStatus.deviceId = RECV_DEVICE_ID
          /\ deviceStatus.status = st

\* connection s holds a build or push event the receiver has accepted: its
\* signature is not rejected and its body is JSON
CIEvent(s) ==
  /\ reqs[s].pc # "idle"
  /\ reqs[s].req.method = "POST"
  /\ reqs[s].req.event \in {"workflow_run", "workflow_job", "push"}
  /\ ~SignatureRejected(reqs[s].req)
  /\ BodyIsJson(reqs[s].req.body)

\* the condition under which the event of connection s is to run a pull
PullTrigger(s) ==
  IF reqs[s].req.event = "push"
    THEN \E c \in BodyCommits(reqs[s].req.body) :
            /\ c.kind \in {"added", "modified"}
            /\ \E name \in secretFiles : Includes(c.path, name)
    ELSE BodyAction(reqs[s].req.body) \in {"requested", "rerequested"}

C26_WitnessPull ==
  \E s \in Slots :
     /\ CIEvent(s) /\ reqs[s].req.body = "pushSecret"
     /\ reqs[s].pc = "done" /\ reqs[s].ranSync /\ reqs[s].wroteStatus

\* C27: a pull that fails in a request (the vault session is not
\* authenticated, the script exits non-zero) is answered 500 with the status
\* record marked 'sync_failed'; the receiver goes on: an answered request
\* can be closed, a free connection accepts every request, and a later pull
\* succeeds or fails by the vault session of its own time.
C27_SyncFailureNonFatal ==
  [][ \A s \in Slots :
        /\ (reqs[s].pc = "syncing" /\ reqs'[s].pc = "status") =>
              (reqs'[s].result = "fail" <=> ~vaultAuth)
        /\ (reqs[s].pc = "write" /\ reqs[s].result = "fail" /\ reqs'[s].pc = "done") =>
              /\ reqs'[s].status = 500
              /\ deviceStatus'.deviceId = RECV_DEVICE_ID
              /\ deviceStatus'.status = "sync_failed"
        /\ reqs[s].pc = "done" => ENABLED Close(s)
        /\ reqs[s].pc = "idle" => \A r \in RecvRequests : ENABLED Receive(s, r) ]_vars

\* after a request whose pull failed, a later status query has been
\* answered 200 with the record of the failure
C27_Witness ==
  \E s \in Slots :
     /\ reqs[s].pc = "done"
     /\ reqs[s].req.method = "GET" /\ reqs[s].req.url = "/status"
     /\ reqs[s].status = 200
     /\ reqs[s].data.status = "sync_failed"

\* a request whose pull failed has been answered 500
C27_WitnessFailed ==
  \E s \in Slots :
     /\ reqs[s].pc = "done" /\ reqs[s].ranSync /\ reqs[s].status = 500
     /\ deviceStatus # Truncated /\ deviceStatus.status = "sync_failed"

\* connection s holds a notification as notifyDevices posts it to a
\* registered sync URL: a POST with a JSON body, no event header and no
\* signature header
Notification(s) ==
  /\ reqs[s].pc # "idle"
  /\ reqs[s].req.method = "POST"
  /\ reqs[s].req.event = "none"
  /\ ~reqs[s].req.hasSig
  /\ BodyIsJson(reqs[s].req.body)

\* response.ok of fetch: the status is in 200..299
ResponseOk(code) == code \in 200..299

\* C30: a peer the daemon records as notified (its receiver answered the
\* POST with a 2xx status) has run a pull for that notification, whatever
\* the path of the registered sync URL and whether or not the peer has a
\* webhook secret.
C30_NotifiedMeansPulled ==
  \A s \in Slots :
     (Notification(s) /\ reqs[s].pc = "done" /\ ResponseOk(reqs[s].status)) =>
        reqs[s].ranSync

----------------------------------------------------------------------------
(* Claims about one device, checked under SpecDevice *)

\* what a status query answers with when the status file holds ds
QueryResult(ds) == IF ds \in {NoStatus, Created, Truncated} THEN NoStatus ELSE ds

\* lastSyncOutcome of a status record of either process
Outcome(rec) ==
  CASE rec.status \in {"synced", "initialized"} -> "success"
    [] rec.status \in {"failed", "sync_failed", "initialization_failed"} -> "failure"
    [] OTHER -> "none"

\* the step in which the daemon of device d records a sync attempt (a push
\* or a periodic pull)
DaemonAttemptRecorded(d) ==
  \/ periodic[d].pc = "status" /\ periodic'[d].pc = "hbRead"
  \/ \E h \in HandlerIds :
        handlers[h].dev = d /\ handlers[h].pc = "status" /\ handlers'[h].pc = "done"

\* C13: one current SyncStatus record per device: once the daemon of the
\* device has recorded a sync attempt (push or periodic pull), that attempt
\* is the most recent one, and a status query made then returns a record of
\* the device with the outcome of that attempt.
C13_OneCurrentStatus ==
  [][ DaemonAttemptRecorded(RECV_DEVICE_ID) =>
        /\ QueryResult(deviceStatus').deviceId = RECV_DEVICE_ID
        /\ Outcome(QueryResult(deviceStatus')) = Outcome(syncStatus'[RECV_DEVICE_ID]) ]_vars

----------------------------------------------------------------------------
(* Claims about the registry, checked under SpecReg *)

\* positions of the records of id d
RecordsOf(devs, d) == { i \in 1..Len(devs) : devs[i].id = d }

\* the registry holds the record of one earlier registerDevice of d, and the
\* daemon of d, started under another hostname, writes the registry for a
\* later one
ReRegistration(d) ==
  /\ daemon[d].pc = "registerWrite"
  /\ daemon'[d].pc = "auth"
  /\ Cardinality(RecordsOf(registry, d)) = 1
  /\ \A i \in RecordsOf(registry, d) :
       /\ "addedManually" \notin DOMAIN registry[i]
       /\ registry[i].hostname # daemon[d].hostname

\* C6: registering a device id again, with another hostname, leaves one
\* record of that id, with the latest hostname and the registeredAt of the
\* first registration.
C6_RegistryUpsert ==
  [][ \A d \in Devices :
        ReRegistration(d) =>
          /\ Cardinality(RecordsOf(registry', d)) = 1
          /\ \A i \in RecordsOf(registry, d), j \in RecordsOf(registry', d) :
               /\ registry'[j].hostname = daemon[d].hostname
               /\ registry'[j].registeredAt = registry[i].registeredAt ]_vars

\* C7: no two records of the device registry have the same id.
C7_RegistryIdUnique ==
  \A i, j \in 1..Len(registry) : registry[i].id = registry[j].id => i = j

C24_WitnessUnknownId ==
  /\ daemon["A"].pc \in {"initialSync", "running"}
  /\ periodic["A"].pc = "idle"
  /\ syncStatus["A"] # NoSyncStatus
  /\ findIndex(registry, "A") = 0

\* the ids of the records of a collection
RegisteredIds(devs) == { devs[i].id : i \in DOMAIN devs }

\* C28: under every interleaving of registration, heartbeat and
\* add-device.sh on the one registry file, no write removes the record of
\* an id: the set of ids in the registry never shrinks.
C28_RecordsNeverLost ==
  [][ RegisteredIds(registry) \subseteq RegisteredIds(registry') ]_vars

----------------------------------------------------------------------------
(* Claims about the registry file, checked under SpecRegFile *)

\* the step in which the daemon of d reads the registry (getRegisteredDevices
\* of registerDevice or of updateHeartbeat)
DaemonReadsRegistry(d) ==
  \/ daemon[d].pc = "registerRead" /\ daemon'[d].pc = "registerWrite"
  \/ periodic[d].pc = "hbRead" /\ periodic'[d].pc # "hbRead"

\* C23: a daemon that reads the registry while add-device.sh writes it
\* finds the complete old or the complete new collection: when the
\* collection being written holds more than the added record (the old one
\* was not empty), the daemon does not read an empty or partial one.
C23_RegistryAtomicForReaders ==
  [][ \A d \in Devices :
        (DaemonReadsRegistry(d) /\ adder.pc = "flush" /\ Len(adder.buf) > 1) =>
           /\ registry # ZeroBytes
           /\ getRegisteredDevices # << >> ]_vars

----------------------------------------------------------------------------
(* Claims about the daemon, checked under SpecDaemon *)

\* the periodicSync of d ends its run of the pull script with success
PullSucceeds(d) ==
  /\ periodic[d].pc = "exec"
  /\ periodic'[d].pc = "status"
  /\ periodic'[d].result = "ok"

Notified(h) ==
  /\ handlers[h].pc \in {"fetch", "status", "done"}
  /\ handlers[h].result = "ok"

\* C4: every registered peer with another id and a sync URL gets its POST
\* sent, whatever the outcome of the POST to any other peer.
C4_FanOutIsolation ==
  \A h \in HandlerIds :
     Notified(h) =>
       \A i \in 1..Len(handlers[h].devices) :
          Eligible(handlers[h].devices[i], handlers[h].dev) =>
            \E j \in 1..Len(handlers[h].fetches) :
               /\ handlers[h].fetches[j].id = handlers[h].devices[i].id
               /\ handlers[h].fetches[j].url = handlers[h].devices[i].syncUrl
               /\ handlers[h].fetches[j].sent

\* the POST to one peer failed and the POST to another was sent and answered
C4_Witness ==
  \E h \in HandlerIds :
     /\ Notified(h)
     /\ \E i, j \in 1..Len(handlers[h].fetches) :
          /\ i < j
          /\ handlers[h].fetches[i].state \in {"error", "non2xx"}
          /\ handlers[h].fetches[j].sent
          /\ handlers[h].fetches[j].state = "ok"

\* C5: once the vault write of a handleFileChange call has succeeded, the
\* call eventually writes SyncStatus 'synced', whatever the peers do.
C5_PushSuccessRecorded ==
  \A h \in HandlerIds :
     (handlers[h].pc = "registry")
        ~> (handlers[h].pc = "done" /\ handlers[h].wrote = "synced")

\* 'synced' was written for a push of which one notification went to a peer
\* that never answered and another was answered outside 2xx
C5_Witness ==
  \E h \in HandlerIds :
     /\ handlers[h].pc = "done"
     /\ handlers[h].wrote = "synced"
     /\ syncStatus[handlers[h].dev].status = "synced"
     /\ \E i, j \in 1..Len(handlers[h].fetches) :
          /\ handlers[h].fetches[i].id \in hung
          /\ handlers[h].fetches[i].state = "error"
          /\ handlers[h].fetches[j].state = "non2xx"

\* C8: the vault never holds the content of a file of zero bytes.
C8_NeverStoresEmpty ==
  \A i \in 1..Len(vault) : vault[i].content # HereString(Empty)

\* the call h finds, when its upload command runs, its document stored
\* already, and the command ends with success
SecondStore(h) ==
  /\ handlers[h].pc = "exec"
  /\ handlers'[h].pc = "registry"
  /\ \E i \in 1..Len(vault) :
       vault[i] = VaultItem(handlers[h].dev, handlers[h].file, handlers[h].content)

\* C9: storing the same content again under the same device and file name
\* leaves the vault with exactly one item of that name, of that content.
C9_IdempotentStore ==
  [][ \A h \in HandlerIds :
        SecondStore(h) =>
          LET item == VaultItem(handlers[h].dev, handlers[h].file, handlers[h].content) IN
            /\ Cardinality(Titled(vault', item.title)) = 1
            /\ \A i \in Titled(vault', item.title) : vault'[i] = item ]_vars

\* the number of POSTs the call h has sent to the device id
PostsTo(h, id) ==
  Cardinality({ i \in 1..Len(handlers[h].fetches) :
                  handlers[h].fetches[i].id = id /\ handlers[h].fetches[i].sent })

\* id is registered with a sync endpoint and is not the device self
Target(id, self) ==
  /\ id # self
  /\ \E i \in 1..Len(registry) : registry[i].id = id /\ registry[i].syncUrl # NullUrl

PushFailed(h) ==
  /\ handlers[h].pc \in {"status", "done"}
  /\ handlers[h].result = "fail"

\* C16: when the vault write of a handleFileChange call fails, the call
\* sends no notification, writes a SyncStatus record 'failed' that carries
\* the error and names the file, goes on to its end without running the
\* upload again, and the daemon keeps running.
C16_FailedPush ==
  /\ [](\A h \in HandlerIds :
          PushFailed(h) =>
            /\ \A id \in DeviceIds : PostsTo(h, id) = 0
            /\ daemon[handlers[h].dev].pc = "running"
            /\ handlers[h].pc = "done" => handlers[h].wrote = "failed")
  /\ [][ \A h \in HandlerIds :
           PushFailed(h) =>
             /\ handlers'[h].pc \in {"status", "done", "idle"}
             /\ (handlers[h].pc = "status" /\ handlers'[h].pc = "done") =>
                  /\ syncStatus'[handlers[h].dev].status = "failed"
                  /\ syncStatus'[handlers[h].dev].error
                  /\ syncStatus'[handlers[h].dev].lastFile = handlers[h].file
                  /\ syncStatus'[handlers[h].dev].deviceId = handlers[h].dev ]_vars

\* the upload of a change of A failed with the op session signed in, the
\* failure is recorded and the daemon runs
C16_Witness ==
  \E h \in HandlerIds :
     /\ PushFailed(h)
     /\ handlers[h].pc = "done"
     /\ handlers[h].dev = "A"
     /\ syncStatus["A"] = SyncStatusRecord("A", "failed", ".env.local", FALSE)
     /\ syncStatus["A"].error
     /\ handlers[h].fetches = << >>
     /\ daemon["A"].pc = "running"

\* the vault holds the document of content c for file f of device d
StoredInVault(v, d, f, c) == \E i \in 1..Len(v) : v[i] = VaultItem(d, f, c)

\* no handleFileChange call for file f of device d is waiting or in flight
NoPushUnderWay(d, f) ==
  /\ <<d, f>> \notin changeEvents
  /\ \A h \in HandlerIds :
        (handlers[h].dev = d /\ handlers[h].file = f) => handlers[h].pc \in {"idle", "done"}

\* the last sync attempt of device d is a push of file f that failed, and
\* the content of the file is not in the vault
UnstoredChange(d, f) ==
  /\ syncStatus[d] = SyncStatusRecord(d, "failed", f, FALSE)
  /\ local[d][f] \notin {Empty, Missing}
  /\ ~StoredInVault(vault, d, f, local[d][f])
  /\ NoPushUnderWay(d, f)

\* C17: a periodic cycle that runs with the vault reachable, after a push
\* that failed, heals the push: when its sync has ended with success the
\* vault holds the changed content, or the changed file is untouched and
\* its push has been started again.
C17_FailedPushHealed ==
  [][ \A d \in Devices, f \in WATCH_FILES :
        (UnstoredChange(d, f) /\ PullSucceeds(d)) =>
           \/ StoredInVault(vault', d, f, local[d][f])
           \/ (local'[d][f] = local[d][f] /\ <<d, f>> \in changeEvents') ]_vars

\* the record of device d in the registry devs
RecordOf(devs, d) == devs[findIndex(devs, d)]

OperatorStep == budget'.edits < budget.edits

\* C25: no step of a daemon (change handling, periodic cycle, startup,
\* shutdown) changes the content of a watched file: in a system of daemons
\* and operators alone, the content of a watched file changes only in a
\* step of the operator.
C25_DaemonNeverWritesLocal ==
  [][ \A d \in Devices : \A f \in WATCH_FILES :
        local'[d][f] # local[d][f] => OperatorStep ]_vars

\* the edits the operator has made
EditsMade == MaxEdits - budget.edits

\* C29: pushes are started by edits of the operator alone, so a single
\* edit is followed by a bounded number of vault writes: a pull that
\* rewrites a watched file starts no push-and-notify round, and the vault
\* holds at most one document for every edit made.
C29_PullStartsNoPush ==
  /\ Len(vault) <= EditsMade
  /\ (EditsMade = 0 => changeEvents = {})

----------------------------------------------------------------------------
(* Claims about the life of a daemon, checked under SpecStart *)

\* C19: a vault CLI call that never returns does not wedge the daemon:
\* whenever a periodicSync call hangs in its script run, the initial one
\* included, the timer that starts the next attempt is armed.
C19_HangDoesNotWedge ==
  \A d \in Devices : periodic[d].pc = "hung" => daemon[d].pc = "running"

\* the step of main() in which the authentication check finds no session
StartUnauthenticated(d) ==
  /\ daemon[d].pc = "auth"
  /\ daemon'[d].pc # "auth"
  /\ ~vaultAuth

\* C20: a daemon that finds the vault session unauthenticated at startup
\* exits (with code 1) registered in the registry, with no file watch, no
\* sync, no timer and no vault write.
C20_FailFastStartup ==
  [][ \A d \in Devices :
        StartUnauthenticated(d) =>
          /\ daemon'[d].pc = "exited"
          /\ findIndex(registry', d) > 0
          /\ ~Watching(d)'
          /\ periodic'[d] = IdlePeriodic
          /\ \A h \in HandlerIds : handlers'[h].dev # d
          /\ syncStatus'[d] = syncStatus[d]
          /\ vault' = vault ]_vars

\* the daemon of A has exited at its authentication check: it is registered
\* and has neither synced nor written to the vault
C20_Witness ==
  /\ daemon["A"].pc = "exited"
  /\ ~vaultAuth
  /\ findIndex(registry, "A") > 0
  /\ periodic["A"] = IdlePeriodic
  /\ syncStatus["A"] = NoSyncStatus
  /\ vault = << >>

\* the step in which the daemon of d handles SIGTERM / SIGINT and exits
ShutdownStep(d) == daemon[d].pc = "running" /\ daemon'[d].pc = "stopped"

\* a push or a periodic pull of device d is in flight (and not hung)
SyncInFlight(d) ==
  \/ periodic[d].pc \in {"exec", "status", "hbRead", "hbWrite"}
  \/ \E h \in HandlerIds : handlers[h].dev = d /\ handlers[h].pc \notin {"idle", "done"}

\* C21: at the exit on a termination signal the watches are closed and the
\* timer is cancelled, and no push or periodic pull that was in flight when
\* the signal arrived is cut off: the exit comes when none is in flight.
C21_GracefulShutdown ==
  [][ \A d \in Devices :
        ShutdownStep(d) =>
          /\ ~Watching(d)'
          /\ daemon'[d].pc # "running"
          /\ ~SyncInFlight(d) ]_vars

====
